---- MODULE Spec2Model ----
(***************************************************************************)
(* Public-input container of a plonky2x circuit                            *)
(* (plonky2x/core/src/backend/circuit/input.rs).                           *)
(*                                                                         *)
(* A job builds one PublicInput (new, or an enum literal), populates it    *)
(* with write / write_all / evm_write / evm_write_all / proof_write /      *)
(* data_write, hands it to the prover, and from_proof_with_pis extracts a  *)
(* container back out of the proof's public inputs.  A panic is recorded   *)
(* as the result of the call together with the container as the panicking  *)
(* arm left it.                                                            *)
(***************************************************************************)
EXTENDS Integers, Sequences, FiniteSets, TLC

VARIABLES
    pc,         \* where each job is: "start", "building", "proved", "stored", "loaded"
    decl,       \* the CircuitIO each job's container was built from
    input,      \* each job's PublicInput
    outcome,    \* each job's last call: operation, argument, "ok" or the panic
    written,    \* what each job's caller handed to the writes that returned
    proof,      \* the proof made from each job's finished container
    extracted,  \* the last from_proof_with_pis on each job's proof
    stored,     \* the serialized form of each job's container, once saved
    loaded      \* the container deserialized from each job's stored form

vars == <<pc, decl, input, outcome, written, proof, extracted, stored, loaded>>

(* ------------------------------ bounds -------------------------------- *)

\* longest byte / element / proof / id sequence a container is grown to
MaxLen == 2
\* longest slice handed to write_all / evm_write_all in one call
MaxArg == 2
\* elements the prover appends after the container's own (the circuit output)
MaxOut == 1

(* ------------------------------ domains ------------------------------- *)

Jobs == {"job1", "job2"}
MainJobs == {"job1"}

RECURSIVE Pow2(_)
Pow2(n) == IF n = 0 THEN 1 ELSE 2 * Pow2(n - 1)

\* sample field elements: ZERO, ONE and one element that is no boolean
Field == {0, 1, 2}
\* sample u8 values handed to the byte writes
Byte == {0, 1, 165, 255}

SeqsUpTo(S, n) == UNION {[1..k -> S] : k \in 0..n}

\* Option<T>: None is the empty sequence, Some(x) is <<x>>
OptNone == <<>>
Some(x) == <<x>>

\* ProofWithPublicInputs values handed to proof_write
ChildProofs == {[proof |-> "p1", public_inputs |-> <<>>],
                [proof |-> "p2", public_inputs |-> <<1>>]}
NoChild == [proof |-> "", public_inputs |-> <<>>]

ProofIds == {"id1", "id2"}

\* VerifierCircuitData values handed to data_write
VerifierCircuitData == [verifier_only : {"vk1", "vk2"}, common : {"cd1", "cd2"}]
NoData == [verifier_only |-> "", common |-> ""]

\* MyVerifierCircuitData { verifier_only, common }
MyVerifierCircuitData(verifier_only, common) ==
    [verifier_only |-> verifier_only, common |-> common]

\* typed values V::ValueType: a bool for BoolVariable, a u8 for ByteVariable
BoolValue(b) == [V |-> "BoolVariable", b |-> b, n |-> 0]
ByteValue(n) == [V |-> "ByteVariable", b |-> FALSE, n |-> n]
Values == {BoolValue(b) : b \in BOOLEAN} \cup {ByteValue(n) : n \in Byte}
NoValue == [V |-> "", b |-> FALSE, n |-> 0]

(* ----------------------- the PublicInput variants ---------------------- *)

PIBytes(v) == [tag |-> "Bytes", v |-> v]
PIElements(v) == [tag |-> "Elements", v |-> v]
PIRecursiveProofs(v) == [tag |-> "RecursiveProofs", v |-> v]
PIRemoteRecursiveProofs(v) == [tag |-> "RemoteRecursiveProofs", v |-> v]
PICyclicProof(elems, io_proof, io_data) ==
    [tag |-> "CyclicProof", input |-> elems, io_proof |-> io_proof, io_data |-> io_data]
PINone == [tag |-> "None"]

\* no container (before construction, or the constructor panicked)
NoInput == [tag |-> "-"]

(* ------------------------- CircuitIO declarations ---------------------- *)

MaxInputLen == MaxLen + 1

IOBytes(n) == [mode |-> "Bytes", input_len |-> n]
IOElements(n) == [mode |-> "Elements", input_len |-> n]
IORecursiveProofs == [mode |-> "RecursiveProofs", input_len |-> 0]
IOCyclicProof == [mode |-> "CyclicProof", input_len |-> 0]
IONone == [mode |-> "None", input_len |-> 0]
NoDecl == [mode |-> "-", input_len |-> 0]

CircuitIO == {IOBytes(n) : n \in 0..MaxInputLen}
             \cup {IOElements(n) : n \in 0..MaxInputLen}
             \cup {IORecursiveProofs, IOCyclicProof, IONone}

(* ------------------------------ panics -------------------------------- *)

OK == "ok"
FieldIoNotEnabled == "field io is not enabled"
EvmIoNotEnabled == "evm io is not enabled"
CyclicIoNotEnabled == "cyclic io is not enabled"
CyclicAlreadyHasData == "cyclic proof already has data"
NotYetImplemented == "not yet implemented"
SliceIndexOutOfRange == "range end index out of range for slice"

\* a call's effect: the container afterwards and "ok" or the panic message
Return(self) == [self |-> self, result |-> OK]
Panic(self, msg) == [self |-> self, result |-> msg]

(* ------------------ the typed-value codec (external) ------------------ *)

\* ByteVariable::nb_elements(): a byte is eight BoolVariables
NbElementsByte == 8

nb_elements(V) == IF V = "BoolVariable" THEN 1 ELSE NbElementsByte

\* the bits of a u8, most significant first
to_be_bits(n) == [i \in 1..NbElementsByte |-> (n \div Pow2(NbElementsByte - i)) % 2]

\* V::elements(value): the field-element encoding of a typed value
elements(value) ==
    IF value.V = "BoolVariable"
    THEN <<IF value.b THEN 1 ELSE 0>>
    ELSE to_be_bits(value.n)

RECURSIVE from_be_bits(_)
from_be_bits(bits) ==
    IF bits = <<>> THEN 0
    ELSE 2 * from_be_bits(SubSeq(bits, 1, Len(bits) - 1))
         + (IF bits[Len(bits)] = 1 THEN 1 ELSE 0)

\* V::from_elements(elements): a BoolVariable is true iff its element is ONE
from_elements(V, elems) ==
    IF V = "BoolVariable"
    THEN BoolValue(elems[1] = 1)
    ELSE ByteValue(from_be_bits(elems))

\* V::encode_value(value): the abi bytes of a typed value
encode_value(value) ==
    IF value.V = "BoolVariable"
    THEN <<IF value.b THEN 1 ELSE 0>>
    ELSE <<value.n>>

\* ValueStream::from_values / read_value: take the next nb_elements of the stream
from_values(elems) == elems
read_value(stream, V) ==
    [value |-> from_elements(V, SubSeq(stream, 1, nb_elements(V))),
     stream |-> SubSeq(stream, nb_elements(V) + 1, Len(stream))]

(* -------------------- PublicInput: construction ---------------------- *)

\* new answering a RecursiveProofs declaration with the remote variant
new_remote(io) ==
    CASE io.mode = "Bytes" -> PIBytes(<<>>)
      [] io.mode = "Elements" -> PIElements(<<>>)
      [] io.mode = "RecursiveProofs" -> PIRemoteRecursiveProofs(<<>>)
      [] io.mode = "CyclicProof" -> PICyclicProof(<<>>, OptNone, OptNone)
      [] io.mode = "None" -> PINone

\* new with the Bytes and Elements arms swapped
new_swapped(io) ==
    CASE io.mode = "Bytes" -> PIElements(<<>>)
      [] io.mode = "Elements" -> PIBytes(<<>>)
      [] io.mode = "RecursiveProofs" -> PIRecursiveProofs(<<>>)
      [] io.mode = "CyclicProof" -> PICyclicProof(<<>>, OptNone, OptNone)
      [] io.mode = "None" -> PINone

\* PublicInput::new(io)
new(io) ==
    CASE io.mode = "Bytes" -> PIBytes(<<>>)
      [] io.mode = "Elements" -> PIElements(<<>>)
      [] io.mode = "RecursiveProofs" -> PIRecursiveProofs(<<>>)
      [] io.mode = "CyclicProof" -> PICyclicProof(<<>>, OptNone, OptNone)
      [] io.mode = "None" -> PINone

\* slice_to with the bound checked one element late
slice_to_off_by_one(public_inputs, offset) ==
    IF offset > Len(public_inputs) + 1
    THEN [ok |-> FALSE, v |-> <<>>]
    ELSE [ok |-> TRUE,
          v |-> SubSeq(public_inputs, 1,
                       IF offset > Len(public_inputs) THEN Len(public_inputs) ELSE offset)]

\* slice_to taking the last offset elements instead of the first
slice_to_tail(public_inputs, offset) ==
    IF offset > Len(public_inputs)
    THEN [ok |-> FALSE, v |-> <<>>]
    ELSE [ok |-> TRUE,
          v |-> SubSeq(public_inputs, Len(public_inputs) - offset + 1, Len(public_inputs))]

\* public_inputs[..offset]: the prefix, or a panic when offset is past the end
slice_to(public_inputs, offset) ==
    IF offset > Len(public_inputs)
    THEN [ok |-> FALSE, v |-> <<>>]
    ELSE [ok |-> TRUE, v |-> SubSeq(public_inputs, 1, offset)]

\* read_bytes collecting the bytes last-read first
RECURSIVE read_bytes_reversed(_, _)
read_bytes_reversed(stream, n) ==
    IF n = 0 THEN <<>>
    ELSE LET r == read_value(stream, "ByteVariable")
         IN read_bytes_reversed(r.stream, n - 1) \o <<r.value.n>>

\* (0..n).map(|_| stream.read_value::<ByteVariable>()).collect_vec()
RECURSIVE read_bytes(_, _)
read_bytes(stream, n) ==
    IF n = 0 THEN <<>>
    ELSE LET r == read_value(stream, "ByteVariable")
         IN <<r.value.n>> \o read_bytes(r.stream, n - 1)

\* from_proof_with_pis reading a CyclicProof declaration's buffer as the
\* element sequence of a CyclicProof container
from_proof_with_pis_cyclic(io, proof_with_pis) ==
    CASE io.mode = "Bytes" ->
           LET offset == nb_elements("ByteVariable") * io.input_len
               sl == slice_to(proof_with_pis.public_inputs, offset)
           IN IF ~sl.ok THEN Panic(NoInput, SliceIndexOutOfRange)
              ELSE Return(PIBytes(read_bytes(from_values(sl.v), io.input_len)))
      [] io.mode = "Elements" ->
           LET offset == io.input_len
               sl == slice_to(proof_with_pis.public_inputs, offset)
           IN IF ~sl.ok THEN Panic(NoInput, SliceIndexOutOfRange)
              ELSE Return(PIElements(sl.v))
      [] io.mode = "RecursiveProofs" -> Panic(NoInput, NotYetImplemented)
      [] io.mode = "CyclicProof" ->
           Return(PICyclicProof(proof_with_pis.public_inputs, OptNone, OptNone))
      [] io.mode = "None" -> Return(PINone)

\* PublicInput::from_proof_with_pis(io, proof_with_pis)
from_proof_with_pis(io, proof_with_pis) ==
    CASE io.mode = "Bytes" ->
           LET offset == nb_elements("ByteVariable") * io.input_len
               sl == slice_to(proof_with_pis.public_inputs, offset)
           IN IF ~sl.ok THEN Panic(NoInput, SliceIndexOutOfRange)
              ELSE Return(PIBytes(read_bytes(from_values(sl.v), io.input_len)))
      [] io.mode = "Elements" ->
           LET offset == io.input_len
               sl == slice_to(proof_with_pis.public_inputs, offset)
           IN IF ~sl.ok THEN Panic(NoInput, SliceIndexOutOfRange)
              ELSE Return(PIElements(sl.v))
      [] io.mode = "RecursiveProofs" -> Panic(NoInput, NotYetImplemented)
      [] io.mode = "CyclicProof" -> Panic(NoInput, NotYetImplemented)
      [] io.mode = "None" -> Return(PINone)

(* ---------------------- PublicInput: mutators -------------------------- *)

\* write keeping only the elements of the value it is given
write_dropping(self, value) ==
    CASE self.tag = "Elements" -> Return(PIElements(elements(value)))
      [] self.tag = "CyclicProof" ->
           Return(PICyclicProof(elements(value), self.io_proof, self.io_data))
      [] OTHER -> Panic(self, FieldIoNotEnabled)

\* write that turns an empty None container into an Elements one
write_coercing(self, value) ==
    CASE self.tag = "Elements" -> Return(PIElements(self.v \o elements(value)))
      [] self.tag = "CyclicProof" ->
           Return(PICyclicProof(self.input \o elements(value), self.io_proof, self.io_data))
      [] self.tag = "None" -> Return(PIElements(elements(value)))
      [] OTHER -> Panic(self, FieldIoNotEnabled)

\* PublicInput::write::<V>(&mut self, value)
write(self, value) ==
    CASE self.tag = "Elements" -> Return(PIElements(self.v \o elements(value)))
      [] self.tag = "CyclicProof" ->
           Return(PICyclicProof(self.input \o elements(value), self.io_proof, self.io_data))
      [] OTHER -> Panic(self, FieldIoNotEnabled)

\* write_all putting the slice in front of the elements already there
write_all_prepending(self, value) ==
    CASE self.tag = "Elements" -> Return(PIElements(value \o self.v))
      [] self.tag = "CyclicProof" ->
           Return(PICyclicProof(value \o self.input, self.io_proof, self.io_data))
      [] OTHER -> Panic(self, FieldIoNotEnabled)

\* PublicInput::write_all(&mut self, value: &[Field])
write_all(self, value) ==
    CASE self.tag = "Elements" -> Return(PIElements(self.v \o value))
      [] self.tag = "CyclicProof" ->
           Return(PICyclicProof(self.input \o value, self.io_proof, self.io_data))
      [] OTHER -> Panic(self, FieldIoNotEnabled)

\* evm_write replacing the buffer by the encoding
evm_write_replacing(self, value) ==
    CASE self.tag = "Bytes" -> Return(PIBytes(encode_value(value)))
      [] OTHER -> Panic(self, EvmIoNotEnabled)

\* PublicInput::evm_write::<V>(&mut self, value)
evm_write(self, value) ==
    CASE self.tag = "Bytes" ->
           LET bytes == encode_value(value)
           IN Return(PIBytes(self.v \o bytes))
      [] OTHER -> Panic(self, EvmIoNotEnabled)

\* evm_write_all doing nothing, and saying nothing, on the other variants
evm_write_all_silent(self, bytes) ==
    CASE self.tag = "Bytes" -> Return(PIBytes(self.v \o bytes))
      [] OTHER -> Return(self)

\* PublicInput::evm_write_all(&mut self, bytes: &[u8])
evm_write_all(self, bytes) ==
    CASE self.tag = "Bytes" -> Return(PIBytes(self.v \o bytes))
      [] OTHER -> Panic(self, EvmIoNotEnabled)

\* proof_write filling the proof slot and resetting the metadata slot
proof_write_clearing_data(self, p) ==
    CASE self.tag = "RecursiveProofs" -> Return(PIRecursiveProofs(Append(self.v, p)))
      [] self.tag = "CyclicProof" ->
           IF self.io_proof # OptNone
           THEN Panic(self, CyclicAlreadyHasData)
           ELSE Return(PICyclicProof(self.input, Some(p), OptNone))
      [] OTHER -> Panic(self, CyclicIoNotEnabled)

\* proof_write overwriting a filled CyclicProof slot
proof_write_overwriting(self, p) ==
    CASE self.tag = "RecursiveProofs" -> Return(PIRecursiveProofs(Append(self.v, p)))
      [] self.tag = "CyclicProof" -> Return(PICyclicProof(self.input, Some(p), self.io_data))
      [] OTHER -> Panic(self, CyclicIoNotEnabled)

\* proof_write skipping a proof that is registered already
proof_write_dedup(self, p) ==
    CASE self.tag = "RecursiveProofs" ->
           IF \E i \in 1..Len(self.v) : self.v[i] = p
           THEN Return(self)
           ELSE Return(PIRecursiveProofs(Append(self.v, p)))
      [] self.tag = "CyclicProof" ->
           IF self.io_proof # OptNone
           THEN Panic(self, CyclicAlreadyHasData)
           ELSE Return(PICyclicProof(self.input, Some(p), self.io_data))
      [] OTHER -> Panic(self, CyclicIoNotEnabled)

\* PublicInput::proof_write(&mut self, proof)
proof_write(self, p) ==
    CASE self.tag = "RecursiveProofs" -> Return(PIRecursiveProofs(Append(self.v, p)))
      [] self.tag = "CyclicProof" ->
           IF self.io_proof # OptNone
           THEN Panic(self, CyclicAlreadyHasData)
           ELSE Return(PICyclicProof(self.input, Some(p), self.io_data))
      [] OTHER -> Panic(self, CyclicIoNotEnabled)

\* data_write overwriting a filled metadata slot
data_write_overwriting(self, data) ==
    CASE self.tag = "CyclicProof" ->
           Return(PICyclicProof(self.input, self.io_proof,
                                Some(MyVerifierCircuitData(data.verifier_only, data.common))))
      [] OTHER -> Panic(self, CyclicIoNotEnabled)

\* data_write reporting the wrong variant with the slot-already-set message
data_write_confused(self, data) ==
    CASE self.tag = "CyclicProof" ->
           IF self.io_data # OptNone
           THEN Panic(self, CyclicAlreadyHasData)
           ELSE Return(PICyclicProof(self.input, self.io_proof,
                                     Some(MyVerifierCircuitData(data.verifier_only, data.common))))
      [] OTHER -> Panic(self, CyclicAlreadyHasData)

\* PublicInput::data_write(&mut self, data)
data_write(self, data) ==
    CASE self.tag = "CyclicProof" ->
           IF self.io_data # OptNone
           THEN Panic(self, CyclicAlreadyHasData)
           ELSE LET wrapped == MyVerifierCircuitData(data.verifier_only, data.common)
                IN Return(PICyclicProof(self.input, self.io_proof, Some(wrapped)))
      [] OTHER -> Panic(self, CyclicIoNotEnabled)

\* PublicInput::set::<V>(&mut self, variable, value)
set(self, value) == Panic(self, NotYetImplemented)

(* ------------- PublicInput: derive(Serialize, Deserialize) ------------- *)

\* serialize with the skip put on the proof field instead of the metadata
serialize_skipping_proof(self) ==
    CASE self.tag = "CyclicProof" ->
           [variant |-> self.tag, fields |-> <<self.input, self.io_data>>]
      [] self.tag = "None" -> [variant |-> self.tag, fields |-> <<>>]
      [] OTHER -> [variant |-> self.tag, fields |-> <<self.v>>]

\* Serialize: the variant's name and its fields in order, without the
\* CyclicProof field marked #[serde(skip)]
serialize(self) ==
    CASE self.tag = "CyclicProof" ->
           [variant |-> self.tag, fields |-> <<self.input, self.io_proof>>]
      [] self.tag = "None" -> [variant |-> self.tag, fields |-> <<>>]
      [] OTHER -> [variant |-> self.tag, fields |-> <<self.v>>]

\* Deserialize: the named variant from its fields; the skipped field is
\* Default::default(), which is None
deserialize(s) ==
    CASE s.variant = "CyclicProof" -> PICyclicProof(s.fields[1], s.fields[2], OptNone)
      [] s.variant = "None" -> PINone
      [] OTHER -> [tag |-> s.variant, v |-> s.fields[1]]

(* --------------------- the proving backend (external) ------------------ *)

\* the field elements the backend reads from a finished container
RECURSIVE input_elements(_)
input_elements(self) ==
    CASE self.tag = "Elements" -> self.v
      [] self.tag = "Bytes" ->
           IF self.v = <<>> THEN <<>>
           ELSE to_be_bits(Head(self.v)) \o input_elements(PIBytes(Tail(self.v)))
      [] OTHER -> <<>>

\* the proof of a circuit run: its public inputs are the input elements
\* followed by the circuit's output elements
prove(self, output) ==
    [proof |-> "pi", public_inputs |-> input_elements(self) \o output]
NoProof == [proof |-> "", public_inputs |-> <<>>]

(* ------------------------------- state --------------------------------- *)

\* the argument of a call
ArgValue(value) == [value |-> value, slice |-> <<>>, proof |-> NoChild, data |-> NoData]
ArgSlice(slice) == [value |-> NoValue, slice |-> slice, proof |-> NoChild, data |-> NoData]
ArgProof(p) == [value |-> NoValue, slice |-> <<>>, proof |-> p, data |-> NoData]
ArgData(data) == [value |-> NoValue, slice |-> <<>>, proof |-> NoChild, data |-> data]
NoArg == ArgValue(NoValue)

NoCall == [op |-> "-", arg |-> NoArg, result |-> OK, tick |-> FALSE]
NoExtract == [io |-> NoDecl, self |-> NoInput, result |-> "-"]
NoStored == [variant |-> "-", fields |-> <<>>]

\* the sequences a container holds, for the length cap of the model
Size(self) ==
    CASE self.tag \in {"Bytes", "Elements", "RecursiveProofs", "RemoteRecursiveProofs"} ->
           Len(self.v)
      [] self.tag = "CyclicProof" -> Len(self.input)
      [] OTHER -> 0

Init ==
    /\ pc = [j \in Jobs |-> "start"]
    /\ decl = [j \in Jobs |-> NoDecl]
    /\ input = [j \in Jobs |-> NoInput]
    /\ outcome = [j \in Jobs |-> NoCall]
    /\ written = [j \in Jobs |-> <<>>]
    /\ proof = [j \in Jobs |-> NoProof]
    /\ extracted = [j \in Jobs |-> NoExtract]
    /\ stored = [j \in Jobs |-> NoStored]
    /\ loaded = [j \in Jobs |-> NoInput]

(* ------------------------------ actions -------------------------------- *)

\* let input = PublicInput::new(&io)
New(j) ==
    \E io \in CircuitIO :
        /\ pc[j] = "start"
        /\ pc' = [pc EXCEPT ![j] = "building"]
        /\ decl' = [decl EXCEPT ![j] = io]
        /\ input' = [input EXCEPT ![j] = new(io)]
        /\ UNCHANGED <<outcome, written, proof, extracted, stored, loaded>>

\* let input = PublicInput::RemoteRecursiveProofs(ids): the one variant new
\* never returns is built as an enum literal
Literal(j) ==
    \E ids \in SeqsUpTo(ProofIds, MaxLen) :
        /\ pc[j] = "start"
        /\ pc' = [pc EXCEPT ![j] = "building"]
        /\ input' = [input EXCEPT ![j] = PIRemoteRecursiveProofs(ids)]
        /\ UNCHANGED <<decl, outcome, written, proof, extracted, stored, loaded>>

\* the field elements or bytes a write hands over: the codec's encoding of a
\* typed value, a raw slice as it is
Given(op, arg) ==
    CASE op = "write" -> elements(arg.value)
      [] op = "evm_write" -> encode_value(arg.value)
      [] op \in {"write_all", "evm_write_all"} -> arg.slice
      [] OTHER -> <<>>

\* a call whose result lands in every job's container: the containers share
\* one buffer
Call_shared(j, op, arg, r) ==
    /\ pc[j] = "building"
    /\ Size(r.self) <= MaxLen
    /\ input' = [k \in Jobs |-> r.self]
    /\ outcome' = [outcome EXCEPT ![j] =
           [op |-> op, arg |-> IF r.result = OK THEN arg ELSE NoArg,
            result |-> r.result, tick |-> ~outcome[j].tick]]
    /\ written' = [written EXCEPT ![j] = IF r.result = OK THEN @ \o Given(op, arg) ELSE @]
    /\ UNCHANGED <<pc, decl, proof, extracted, stored, loaded>>

\* one call of a mutator on job j's container: r is what the call does.
\* outcome keeps what the caller is left with: the argument the container took
\* over when the call returned, only the panic message when it panicked; tick
\* alternates so that two equal calls in a row are two steps.
Call(j, op, arg, r) ==
    /\ pc[j] = "building"
    /\ Size(r.self) <= MaxLen
    /\ input' = [input EXCEPT ![j] = r.self]
    /\ outcome' = [outcome EXCEPT ![j] =
           [op |-> op, arg |-> IF r.result = OK THEN arg ELSE NoArg,
            result |-> r.result, tick |-> ~outcome[j].tick]]
    /\ written' = [written EXCEPT ![j] = IF r.result = OK THEN @ \o Given(op, arg) ELSE @]
    /\ UNCHANGED <<pc, decl, proof, extracted, stored, loaded>>

Write(j) ==
    \E value \in Values : Call(j, "write", ArgValue(value), write(input[j], value))

WriteAll(j) ==
    \E value \in SeqsUpTo(Field, MaxArg) :
        Call(j, "write_all", ArgSlice(value), write_all(input[j], value))

EvmWrite(j) ==
    \E value \in Values : Call(j, "evm_write", ArgValue(value), evm_write(input[j], value))

EvmWriteAll(j) ==
    \E bytes \in SeqsUpTo(Byte, MaxArg) :
        Call(j, "evm_write_all", ArgSlice(bytes), evm_write_all(input[j], bytes))

ProofWrite(j) ==
    \E p \in ChildProofs : Call(j, "proof_write", ArgProof(p), proof_write(input[j], p))

DataWrite(j) ==
    \E data \in VerifierCircuitData :
        Call(j, "data_write", ArgData(data), data_write(input[j], data))

Set(j) ==
    \E value \in Values : Call(j, "set", ArgValue(value), set(input[j], value))

\* the backend consumes the finished container and produces the proof
Prove(j) ==
    \E output \in SeqsUpTo(Field, MaxOut) :
        /\ pc[j] = "building"
        /\ input[j].tag \in {"Elements", "Bytes"}
        /\ pc' = [pc EXCEPT ![j] = "proved"]
        /\ proof' = [proof EXCEPT ![j] = prove(input[j], output)]
        /\ outcome' = [outcome EXCEPT ![j] = [op |-> "prove", arg |-> NoArg, result |-> OK, tick |-> FALSE]]
        /\ UNCHANGED <<decl, input, written, extracted, stored, loaded>>

\* PublicInput::from_proof_with_pis(&io, &proof) on the proof of job j
FromProofWithPis(j) ==
    \E io \in CircuitIO :
        /\ pc[j] = "proved"
        /\ extracted' = [extracted EXCEPT ![j] =
               LET r == from_proof_with_pis(io, proof[j])
               IN [io |-> io, self |-> r.self, result |-> r.result]]
        /\ UNCHANGED <<pc, decl, input, outcome, written, proof, stored, loaded>>

\* the container is serialized and put away
Store(j) ==
    /\ pc[j] = "building"
    /\ pc' = [pc EXCEPT ![j] = "stored"]
    /\ stored' = [stored EXCEPT ![j] = serialize(input[j])]
    /\ outcome' = [outcome EXCEPT ![j] =
           [op |-> "serialize", arg |-> NoArg, result |-> OK, tick |-> FALSE]]
    /\ UNCHANGED <<decl, input, written, proof, extracted, loaded>>

\* a container is deserialized from the stored form
Load(j) ==
    /\ pc[j] = "stored"
    /\ pc' = [pc EXCEPT ![j] = "loaded"]
    /\ loaded' = [loaded EXCEPT ![j] = deserialize(stored[j])]
    /\ UNCHANGED <<decl, input, outcome, written, proof, extracted, stored>>

Step(j) ==
    \/ New(j)
    \/ Literal(j)
    \/ Write(j)
    \/ WriteAll(j)
    \/ EvmWrite(j)
    \/ EvmWriteAll(j)
    \/ ProofWrite(j)
    \/ DataWrite(j)
    \/ Set(j)
    \/ Prove(j)
    \/ FromProofWithPis(j)
    \/ Store(j)
    \/ Load(j)

\* one circuit build
Next == \E j \in MainJobs : Step(j)

Spec == Init /\ [][Next]_vars

(* --------------------------- parallel builds --------------------------- *)

\* the parallel builds are explored on containers of at most one item, with
\* one sample argument of each kind and extraction under the job's own
\* declaration
Short(j) ==
    /\ Size(input[j]) <= 1
    /\ Len(written[j]) <= 1
    /\ Len(proof[j].public_inputs) <= 1
    /\ decl[j].input_len = 0
    /\ extracted[j].io \in {NoDecl, decl[j]}
    /\ outcome[j].arg.value \in {NoValue, BoolValue(TRUE)}
    /\ outcome[j].arg.data \in {NoData, MyVerifierCircuitData("vk1", "cd1")}
    /\ outcome[j].arg.proof \in {NoChild, [proof |-> "p1", public_inputs |-> <<>>]}
    /\ \A i \in 1..Len(outcome[j].arg.slice) : outcome[j].arg.slice[i] = 1
    /\ input[j].tag = "RemoteRecursiveProofs" =>
           \A i \in 1..Len(input[j].v) : input[j].v[i] = "id1"

\* every job builds its own container, the jobs' steps interleaved in any
\* order; a panic unwinds the job it happens in, which takes no further step
NextJobs == \E j \in Jobs : outcome[j].result = OK /\ Step(j) /\ Short(j)'

SpecJobs == Init /\ [][NextJobs]_vars

(* ------------------------- vocabulary of the claims -------------------- *)

\* the two contract violations, by the panic messages that report them
WrongModeError == {FieldIoNotEnabled, EvmIoNotEnabled, CyclicIoNotEnabled}
SlotAlreadySetError == {CyclicAlreadyHasData}

Mutators == {"write", "write_all", "evm_write", "evm_write_all", "proof_write", "data_write"}

\* the variants each operation is valid for
ValidFor(op) ==
    CASE op \in {"write", "write_all"} -> {"Elements", "CyclicProof"}
      [] op \in {"evm_write", "evm_write_all"} -> {"Bytes"}
      [] op = "proof_write" -> {"RecursiveProofs", "CyclicProof"}
      [] op = "data_write" -> {"CyclicProof"}

\* this step is a call of op on job j's container
Called(j, op) ==
    /\ pc[j] = "building"
    /\ pc'[j] = "building"
    /\ outcome'[j].tick # outcome[j].tick
    /\ outcome'[j].op = op

\* the element sequence of an Elements or CyclicProof container
ElementsOf(self) == IF self.tag = "CyclicProof" THEN self.input ELSE self.v

(* -------------------------------- claims ------------------------------- *)

\* C1: an operation called on a variant it is not valid for panics with a
\* wrong-mode message and leaves the container exactly as it was; this covers
\* every operation on the None container.
C1_ModeExclusivity ==
    [][\A j \in Jobs : \A op \in Mutators :
          (Called(j, op) /\ input[j].tag \notin ValidFor(op))
              => /\ outcome'[j].result \in WrongModeError
                 /\ input'[j] = input[j]]_vars

\* C1 witness: a full RemoteRecursiveProofs container has refused a call,
\* all of which it still holds.
C1_Witness ==
    \E j \in Jobs :
        /\ outcome[j].op \in Mutators
        /\ input[j].tag \notin ValidFor(outcome[j].op)
        /\ outcome[j].result \in WrongModeError
        /\ input[j].tag = "RemoteRecursiveProofs"
        /\ Len(input[j].v) = MaxLen

\* C2: no step changes the variant of a constructed container.
C2_ModeFixed ==
    [][\A j \in Jobs : input[j] # NoInput => input'[j].tag = input[j].tag]_vars

\* C2 witness: a container that has taken writes has then had a call fail.
C2_Witness ==
    \E j \in Jobs :
        /\ pc[j] = "building"
        /\ decl[j] # NoDecl
        /\ input[j].tag = decl[j].mode
        /\ Size(input[j]) > 0
        /\ outcome[j].result # OK

\* C3: on a CyclicProof container proof_write fills an empty proof slot with
\* its argument, panics with the slot-already-set message on a filled one and
\* leaves it alone; a filled slot never changes again.
C3_ProofSlotSetOnce ==
    [][\A j \in Jobs : input[j].tag = "CyclicProof" =>
          /\ input[j].io_proof # OptNone => input'[j].io_proof = input[j].io_proof
          /\ (Called(j, "proof_write") /\ input[j].io_proof = OptNone)
                => /\ outcome'[j].result = OK
                   /\ input'[j].io_proof = Some(outcome'[j].arg.proof)
          /\ (Called(j, "proof_write") /\ input[j].io_proof # OptNone)
                => /\ outcome'[j].result \in SlotAlreadySetError
                   /\ input'[j] = input[j]]_vars

\* C3 witness: a second proof_write has just been refused on a filled slot.
C3_Witness ==
    \E j \in Jobs :
        /\ input[j].tag = "CyclicProof"
        /\ input[j].io_proof # OptNone
        /\ outcome[j].op = "proof_write"
        /\ outcome[j].result \in SlotAlreadySetError

\* C4: on a CyclicProof container data_write fills an empty metadata slot
\* with the verification key and the shape descriptor of its argument, panics
\* with the slot-already-set message on a filled one and leaves it alone; a
\* filled slot never changes again.
C4_MetadataSlotSetOnce ==
    [][\A j \in Jobs : input[j].tag = "CyclicProof" =>
          /\ input[j].io_data # OptNone => input'[j].io_data = input[j].io_data
          /\ (Called(j, "data_write") /\ input[j].io_data = OptNone)
                => /\ outcome'[j].result = OK
                   /\ Len(input'[j].io_data) = 1
                   /\ input'[j].io_data[1].verifier_only = outcome'[j].arg.data.verifier_only
                   /\ input'[j].io_data[1].common = outcome'[j].arg.data.common
          /\ (Called(j, "data_write") /\ input[j].io_data # OptNone)
                => /\ outcome'[j].result \in SlotAlreadySetError
                   /\ input'[j] = input[j]]_vars

\* C4 witness: a second data_write has just been refused on a filled slot.
C4_Witness ==
    \E j \in Jobs :
        /\ input[j].tag = "CyclicProof"
        /\ input[j].io_data # OptNone
        /\ outcome[j].op = "data_write"
        /\ outcome[j].result \in SlotAlreadySetError

\* the number of field elements a declaration expects at the front of the
\* public inputs
Expected(io) ==
    IF io.mode = "Bytes" THEN NbElementsByte * io.input_len ELSE io.input_len

\* from_proof_with_pis has been called on job j's proof
Extracted(j) == extracted[j].result # "-"

\* the i-th group of NbElementsByte elements of a buffer, read as a byte
ByteAt(buf, i) ==
    from_elements("ByteVariable",
                  SubSeq(buf, NbElementsByte * (i - 1) + 1, NbElementsByte * i)).n

\* what a returned container must hold for declaration io and buffer buf
ExactContent(io, buf) ==
    IF io.mode = "Bytes"
    THEN PIBytes([i \in 1..io.input_len |-> ByteAt(buf, i)])
    ELSE PIElements(SubSeq(buf, 1, io.input_len))

\* C5: with a Bytes or Elements declaration and public inputs shorter than
\* the declaration expects, from_proof_with_pis panics and returns no
\* container; a container it does return is never shorter than declared.
C5_NeverTruncates ==
    \A j \in Jobs :
        (Extracted(j) /\ extracted[j].io.mode \in {"Bytes", "Elements"}) =>
            /\ Len(proof[j].public_inputs) < Expected(extracted[j].io)
                  => /\ extracted[j].result = SliceIndexOutOfRange
                     /\ extracted[j].self = NoInput
            /\ extracted[j].self # NoInput
                  => Len(extracted[j].self.v) = extracted[j].io.input_len

\* C5 witness: an extraction from public inputs that are not empty and
\* shorter than declared has panicked.
C5_Witness ==
    \E j \in Jobs :
        /\ Extracted(j)
        /\ extracted[j].io.mode = "Elements"
        /\ 0 < Len(proof[j].public_inputs)
        /\ Len(proof[j].public_inputs) < Expected(extracted[j].io)
        /\ extracted[j].result = SliceIndexOutOfRange

\* C6 as stated: a returned container holds exactly the declared prefix, and
\* public inputs whose length differs from the declared length are refused.
C6_LengthExact ==
    \A j \in Jobs :
        (/\ Extracted(j)
         /\ extracted[j].io.mode \in {"Bytes", "Elements"}
         /\ extracted[j].result = OK) =>
            /\ extracted[j].self = ExactContent(extracted[j].io, proof[j].public_inputs)
            /\ Len(proof[j].public_inputs) = Expected(extracted[j].io)

\* C6 amended: a returned container holds exactly the declared prefix, decoded
\* in order; public inputs shorter than declared are refused, longer ones are
\* accepted and the surplus is ignored.
C6_PrefixExact ==
    \A j \in Jobs :
        (Extracted(j) /\ extracted[j].io.mode \in {"Bytes", "Elements"}) =>
            /\ extracted[j].result = OK
                  <=> Len(proof[j].public_inputs) >= Expected(extracted[j].io)
            /\ extracted[j].result = OK
                  => extracted[j].self
                         = ExactContent(extracted[j].io, proof[j].public_inputs)

\* C6 witness: two different bytes have been extracted from public inputs
\* that go on after them.
C6_Witness ==
    \E j \in Jobs :
        /\ Extracted(j)
        /\ extracted[j].io = IOBytes(2)
        /\ extracted[j].result = OK
        /\ extracted[j].self.v[1] # extracted[j].self.v[2]
        /\ Len(proof[j].public_inputs) > Expected(extracted[j].io)

\* C7: a container built from an Elements declaration of n elements, given n
\* elements by write / write_all and proved, comes back from
\* from_proof_with_pis under the same declaration as the Elements container
\* of exactly what was written.
C7_ElementsRoundTrip ==
    \A j \in Jobs :
        (/\ pc[j] = "proved"
         /\ decl[j].mode = "Elements"
         /\ Len(written[j]) = decl[j].input_len
         /\ Extracted(j)
         /\ extracted[j].io = decl[j]) =>
            /\ extracted[j].result = OK
            /\ extracted[j].self = PIElements(written[j])

\* C7 witness: a round trip of MaxLen elements, not all equal, through a
\* proof that carries output after them.
C7_Witness ==
    \E j \in Jobs :
        /\ pc[j] = "proved"
        /\ decl[j] = IOElements(MaxLen)
        /\ Len(written[j]) = MaxLen
        /\ written[j][1] # written[j][MaxLen]
        /\ Len(proof[j].public_inputs) > MaxLen
        /\ extracted[j].io = decl[j]
        /\ extracted[j].result = OK

\* C8: the element sequence of an Elements or CyclicProof container is the
\* concatenation, in call order, of what write (encoded) and write_all (as
\* given) were handed since the container was made empty.
C8_ElementWritesAppend ==
    \A j \in Jobs :
        input[j].tag \in {"Elements", "CyclicProof"}
            => ElementsOf(input[j]) = written[j]

\* C8 witness: a write_all has returned on a CyclicProof container that
\* already held an element, and the sequence is not constant.
C8_Witness ==
    \E j \in Jobs :
        /\ input[j].tag = "CyclicProof"
        /\ outcome[j].op = "write_all"
        /\ outcome[j].result = OK
        /\ outcome[j].arg.slice # <<>>
        /\ Len(input[j].input) > Len(outcome[j].arg.slice)
        /\ input[j].input[1] # input[j].input[Len(input[j].input)]

\* C9: on a Bytes container evm_write appends the encoding of its value and
\* evm_write_all appends its bytes, after the bytes already there and without
\* changing them.
C9_ByteWritesAppend ==
    [][\A j \in Jobs : input[j].tag = "Bytes" =>
          /\ Called(j, "evm_write")
                => /\ outcome'[j].result = OK
                   /\ input'[j].v = input[j].v \o encode_value(outcome'[j].arg.value)
          /\ Called(j, "evm_write_all")
                => /\ outcome'[j].result = OK
                   /\ input'[j].v = input[j].v \o outcome'[j].arg.slice]_vars

\* C9 witness: evm_write_all has returned right after bytes that an
\* evm_write put there.
C9_Witness ==
    \E j \in Jobs :
        /\ input[j].tag = "Bytes"
        /\ outcome[j].op = "evm_write_all"
        /\ outcome[j].result = OK
        /\ outcome[j].arg.slice # <<>>
        /\ input[j].v = encode_value(ByteValue(165)) \o outcome[j].arg.slice
        /\ input[j].v[1] # input[j].v[Len(input[j].v)]

\* C10: on a RecursiveProofs container proof_write always returns and puts
\* its proof at the end of the sequence, duplicates included.
C10_ProofsAppend ==
    [][\A j \in Jobs : (Called(j, "proof_write") /\ input[j].tag = "RecursiveProofs") =>
          /\ outcome'[j].result = OK
          /\ input'[j].v = Append(input[j].v, outcome'[j].arg.proof)]_vars

\* C10 witness: the same proof has been registered twice in a row.
C10_Witness ==
    \E j \in Jobs :
        /\ input[j].tag = "RecursiveProofs"
        /\ Len(input[j].v) = MaxLen
        /\ input[j].v[MaxLen - 1] = input[j].v[MaxLen]
        /\ outcome[j].op = "proof_write"

\* the six variants of PublicInput
Variants == {"Bytes", "Elements", "RecursiveProofs", "RemoteRecursiveProofs",
             "CyclicProof", "None"}

\* job j's container is as its constructor left it: no mutator called yet
Fresh(j) == pc[j] = "building" /\ outcome[j] = NoCall

\* a container with empty sequences and unset slots
IsEmpty(self) ==
    /\ Size(self) = 0
    /\ self.tag = "CyclicProof" => (self.io_proof = OptNone /\ self.io_data = OptNone)

\* C11 as stated: each of the six variants has its declaration, so every
\* fresh empty container is what new returns for some declaration.
C11_EveryModeDeclared ==
    \A j \in Jobs :
        (Fresh(j) /\ input[j].tag \in Variants /\ IsEmpty(input[j]))
            => \E io \in CircuitIO : io.mode = input[j].tag /\ new(io) = input[j]

\* C11 amended: what new returns for a declaration (Bytes, Elements,
\* RecursiveProofs, CyclicProof or None; there is no RemoteRecursiveProofs
\* declaration) has the declaration's mode, empty sequences and unset slots.
C11_NewEmpty ==
    \A j \in Jobs :
        (Fresh(j) /\ decl[j] # NoDecl) =>
            /\ input[j].tag = decl[j].mode
            /\ decl[j].mode \in Variants \ {"RemoteRecursiveProofs"}
            /\ IsEmpty(input[j])

\* C11 witness: a container fresh from new for a CyclicProof declaration.
C11_Witness ==
    \E j \in Jobs :
        /\ Fresh(j)
        /\ decl[j] = IOCyclicProof
        /\ input[j] = PICyclicProof(<<>>, OptNone, OptNone)

\* the documented effect of an operation on a variant it is valid for
Effect(self, op, arg) ==
    CASE op = "write" /\ self.tag = "Elements" -> [self EXCEPT !.v = @ \o elements(arg.value)]
      [] op = "write" /\ self.tag = "CyclicProof" ->
           [self EXCEPT !.input = @ \o elements(arg.value)]
      [] op = "write_all" /\ self.tag = "Elements" -> [self EXCEPT !.v = @ \o arg.slice]
      [] op = "write_all" /\ self.tag = "CyclicProof" -> [self EXCEPT !.input = @ \o arg.slice]
      [] op = "evm_write" -> [self EXCEPT !.v = @ \o encode_value(arg.value)]
      [] op = "evm_write_all" -> [self EXCEPT !.v = @ \o arg.slice]
      [] op = "proof_write" /\ self.tag = "RecursiveProofs" ->
           [self EXCEPT !.v = Append(@, arg.proof)]
      [] op = "proof_write" /\ self.tag = "CyclicProof" ->
           [self EXCEPT !.io_proof = Some(arg.proof)]
      [] op = "data_write" ->
           [self EXCEPT !.io_data = Some([verifier_only |-> arg.data.verifier_only,
                                          common |-> arg.data.common])]

\* the operation targets a CyclicProof slot that is filled already
SlotFilled(self, op) ==
    /\ self.tag = "CyclicProof"
    /\ \/ op = "proof_write" /\ self.io_proof # OptNone
       \/ op = "data_write" /\ self.io_data # OptNone

\* C12: a call of one of the six operations panics with a wrong-mode message
\* exactly when the variant does not support it, with the slot-already-set
\* message exactly when it targets a filled CyclicProof slot, and otherwise
\* returns having performed its effect; no message belongs to both kinds.
C12_TotalTwoFailureKinds ==
    [][\A j \in Jobs : \A op \in Mutators : Called(j, op) =>
          /\ outcome'[j].result \in {OK} \cup WrongModeError \cup SlotAlreadySetError
          /\ outcome'[j].result \in WrongModeError <=> input[j].tag \notin ValidFor(op)
          /\ outcome'[j].result \in SlotAlreadySetError <=> SlotFilled(input[j], op)
          /\ outcome'[j].result = OK
                => input'[j] = Effect(input[j], op, outcome'[j].arg)
          /\ WrongModeError \cap SlotAlreadySetError = {}]_vars

\* C12 witness: on a CyclicProof container holding elements, proof_write has
\* been refused for the filled proof slot while the metadata slot is empty.
C12_Witness ==
    \E j \in Jobs :
        /\ input[j].tag = "CyclicProof"
        /\ outcome[j].op = "proof_write"
        /\ outcome[j].result \in SlotAlreadySetError
        /\ outcome[j].result \notin WrongModeError
        /\ input[j].io_data = OptNone
        /\ input[j].input # <<>>

\* C13: a CyclicProof container comes back from serialize and deserialize
\* with the same elements and proof slot and an unset metadata slot, so that
\* data_write returns on it again; every other variant comes back equal.
C13_MetadataNotPersisted ==
    \A j \in Jobs : pc[j] = "loaded" =>
        IF input[j].tag = "CyclicProof"
        THEN /\ loaded[j] = PICyclicProof(input[j].input, input[j].io_proof, OptNone)
             /\ \A data \in VerifierCircuitData : data_write(loaded[j], data).result = OK
        ELSE loaded[j] = input[j]

\* C13 witness: a CyclicProof container with elements and both slots filled
\* has been stored and loaded.
C13_Witness ==
    \E j \in Jobs :
        /\ pc[j] = "loaded"
        /\ input[j].tag = "CyclicProof"
        /\ input[j].input # <<>>
        /\ input[j].io_proof # OptNone
        /\ input[j].io_data # OptNone
        /\ loaded[j].io_data = OptNone

\* everything the model keeps about job j
JobState(j) ==
    <<pc[j], decl[j], input[j], outcome[j], written[j], proof[j], extracted[j],
      stored[j], loaded[j]>>

\* C14: in every interleaving of the jobs' operations, a step is one job's
\* step: no other job's container or record changes, and a call's outcome
\* and the container it leaves are what the job's own container and the
\* argument give, as if the job ran alone.
C14_Isolation ==
    [][\E j \in Jobs :
          /\ \A k \in Jobs \ {j} : JobState(k)' = JobState(k)
          /\ \A op \in Mutators \cup {"set"} :
                Called(j, op) =>
                    IF /\ op # "set"
                       /\ input[j].tag \in ValidFor(op)
                       /\ ~SlotFilled(input[j], op)
                    THEN /\ outcome'[j].result = OK
                         /\ input'[j] = Effect(input[j], op, outcome'[j].arg)
                    ELSE /\ outcome'[j].result # OK
                         /\ input'[j] = input[j]]_vars

\* C14 witness: two jobs are building at the same time, each with a call
\* behind it, one holding an element and the other a registered proof.
C14_Witness ==
    \E j, k \in Jobs :
        /\ j # k
        /\ pc[j] = "building" /\ pc[k] = "building"
        /\ outcome[j].op = "write" /\ outcome[j].result = OK
        /\ outcome[k].op = "proof_write" /\ outcome[k].result = OK
        /\ input[j] = PIElements(<<1>>)
        /\ input[k].tag = "CyclicProof" /\ input[k].io_proof # OptNone

\* C15: set works on a container that uses field element-based IO and on no
\* other: the last call of a container being set, it returned exactly when
\* the container is Elements. (The body of set is todo!(): it returns on no
\* variant.)
C15_SetWorksOnElements ==
    \A j \in Jobs :
        outcome[j].op = "set" =>
            (outcome[j].result = OK <=> input[j].tag = "Elements")

\* C16: on a CyclicProof container a write or write_all returns and leaves
\* both slots as they were; proof_write returns exactly when the proof slot
\* is unset, whatever the metadata slot and the elements hold, and changes
\* only the proof slot; data_write returns exactly when the metadata slot is
\* unset and changes only the metadata slot.
C16_FieldsIndependent ==
    [][\A j \in Jobs : input[j].tag = "CyclicProof" =>
          /\ (Called(j, "write") \/ Called(j, "write_all")) =>
                /\ outcome'[j].result = OK
                /\ input'[j].io_proof = input[j].io_proof
                /\ input'[j].io_data = input[j].io_data
          /\ Called(j, "proof_write") =>
                /\ outcome'[j].result = OK <=> input[j].io_proof = OptNone
                /\ outcome'[j].result = OK => input'[j].io_proof # OptNone
                /\ input'[j].input = input[j].input
                /\ input'[j].io_data = input[j].io_data
          /\ Called(j, "data_write") =>
                /\ outcome'[j].result = OK <=> input[j].io_data = OptNone
                /\ outcome'[j].result = OK => input'[j].io_data # OptNone
                /\ input'[j].input = input[j].input
                /\ input'[j].io_proof = input[j].io_proof]_vars

\* C16 witness: a CyclicProof container holding elements and metadata has
\* just had its proof registered.
C16_Witness ==
    \E j \in Jobs :
        /\ input[j].tag = "CyclicProof"
        /\ outcome[j].op = "proof_write" /\ outcome[j].result = OK
        /\ input[j].input # <<>>
        /\ input[j].io_data # OptNone
        /\ input[j].io_proof = Some(outcome[j].arg.proof)

\* the byte, element, proof or identifier sequence a container holds
Held(self) ==
    CASE self.tag = "CyclicProof" -> self.input
      [] self.tag = "None" -> <<>>
      [] OTHER -> self.v

IsPrefix(s, t) == Len(s) <= Len(t) /\ SubSeq(t, 1, Len(s)) = s

\* C17: over every step, the sequence a container held before is a prefix of
\* the one it holds after, and the two are equal when the step is a call that
\* panicked.
C17_AppendOnly ==
    [][\A j \in Jobs : pc[j] # "start" =>
          /\ IsPrefix(Held(input[j]), Held(input'[j]))
          /\ \A op \in Mutators \cup {"set"} :
                (Called(j, op) /\ outcome'[j].result # OK) =>
                    Held(input'[j]) = Held(input[j])]_vars

\* C17 witness: a RecursiveProofs container that took two different proofs
\* has refused a call and holds both in the order given.
C17_Witness ==
    \E j \in Jobs :
        /\ input[j].tag = "RecursiveProofs"
        /\ Len(input[j].v) = 2
        /\ input[j].v[1] # input[j].v[2]
        /\ outcome[j].op \in Mutators
        /\ outcome[j].result # OK

\* C18: from_proof_with_pis called with a RecursiveProofs or a CyclicProof
\* declaration panics as not yet implemented and returns no container, for
\* every proof; called with a None declaration it returns the None container,
\* whatever the public inputs hold.
C18_ProofModesNotExtracted ==
    \A j \in Jobs : Extracted(j) =>
        /\ extracted[j].io.mode \in {"RecursiveProofs", "CyclicProof"} =>
              /\ extracted[j].result = NotYetImplemented
              /\ extracted[j].self = NoInput
        /\ extracted[j].io.mode = "None" =>
              /\ extracted[j].result = OK
              /\ extracted[j].self = PINone

\* C18 witness: a proof with public inputs has been put to extraction under
\* a CyclicProof declaration.
C18_Witness ==
    \E j \in Jobs :
        /\ Extracted(j)
        /\ extracted[j].io = IOCyclicProof
        /\ proof[j].public_inputs # <<>>

\* C19: a container built by new is never RemoteRecursiveProofs, nor is one
\* returned by from_proof_with_pis; on a RemoteRecursiveProofs container
\* every call panics and leaves the identifiers as they were given.
C19_RemoteNeverMade ==
    [][\A j \in Jobs :
          /\ decl'[j] # NoDecl => input'[j].tag # "RemoteRecursiveProofs"
          /\ extracted'[j].self.tag # "RemoteRecursiveProofs"
          /\ \A op \in Mutators \cup {"set"} :
                (Called(j, op) /\ input[j].tag = "RemoteRecursiveProofs") =>
                    /\ outcome'[j].result # OK
                    /\ input'[j] = input[j]]_vars

\* C19 witness: a RemoteRecursiveProofs literal of two identifiers has
\* refused a proof_write and holds the two as given.
C19_Witness ==
    \E j \in Jobs :
        /\ decl[j] = NoDecl
        /\ input[j] = PIRemoteRecursiveProofs(<<"id2", "id1">>)
        /\ outcome[j].op = "proof_write"
        /\ outcome[j].result # OK

====
